---- MODULE Spec2Model ----
(***************************************************************************)
(* kino: the event bus between the supervisor and one technique worker     *)
(* (event/src/msg.rs), the invariant pruner (pruner/src/lib.rs), the       *)
(* offsets and the term factory of the term library (term/src/base.rs,     *)
(* factory.rs, term.rs), and the outer loop and the value domains of Tig   *)
(* (tig/src/lib.rs).  Each part has its own specification; the variables   *)
(* of the other parts stay at their initial values.                        *)
(*                                                                         *)
(* Encodings.  Option<T> is a set with at most one element: None is {},    *)
(* Some(x) is {x}.  A HashMap is a function whose DOMAIN is its key set.   *)
(* A Vec<Sym> of property names is the set of its elements (recv only      *)
(* iterates over it, inserting the same offset for each).  A channel is    *)
(* the sequence of the messages in flight plus one flag per remote         *)
(* endpoint (alive or dropped).                                            *)
(***************************************************************************)
EXTENDS Integers, Sequences, FiniteSets, TLC

VARIABLES
  down,         \* Receiver<MsgDown> r: messages in flight, supervisor -> worker
  downAlive,    \* the supervisor still holds its Sender<MsgDown>
  up,           \* Sender<MsgUp> s: messages in flight, worker -> supervisor
  upAlive,      \* the supervisor still holds its Receiver<MsgUp>
  t,            \* Event.t: the technique of the worker
  k_true,       \* Event.k_true: HashMap<Sym, Option<Offset>>
  vec,          \* recv's local `vec`
  pc,           \* position of the worker
  recvRes,      \* what the last completed recv() returned
  getRes,       \* what the last get_k_true() did
  sentDown,     \* history: every MsgDown the supervisor sent, in send order
  returned,     \* history: concatenation of the batches recv() returned
  drained,      \* history: the messages try_recv gave to the running/last recv()
  aliveAtCall,  \* history: downAlive when the running/last recv() was called
  calls,        \* history: the MsgUp of every send call the worker made
  supGot,       \* history: the MsgUp the supervisor received, in order
  to_do,        \* pruner: `to_do`, the pruning request to run, if any
  bg,           \* pruner: the invariants asserted in the solver session
  sysv,         \* prune: the transition system of the solver session
  invars,       \* prune: `invars`, the candidates handed to InvManager::mk
  inhibited,    \* prune: the candidates InvManager has inhibited
  non_trivial_invs, \* prune: `non_trivial_invs`
  prPc,         \* prune: position ("idle", "loop", "ret")
  models,       \* history: the models of the SAT answers of the running prune
  run,          \* history: 1 for a first prune, 2 for prune run on its result
  res1,         \* history: the result of the first prune
  neg_active,   \* prune: the negative actlits of the session not deactivated
  trivial,      \* history: the candidates whose own check was UNSAT
  sat_iters,    \* history: the SAT iterations of the running/last prune
  off2,         \* Offset2: the two-state offset, [curr, next]
  nxts,         \* history: number of Offset2::nxt applied to Offset2::init()
  offPc,        \* "ok", or "panicked" once an addition overflowed and panicked
  lhs,          \* merge: a first Smt2Offset
  rhs,          \* merge: a second Smt2Offset
  thd,          \* merge: a third Smt2Offset
  mres,         \* merge: the results of the merges made so far, by name
  table,        \* Factory.term: the hash cons table, a set of [elm, key]
  handles,      \* history: the handle each interning call returned
  mutex,        \* the Mutex of the term table: the worker that holds it, if any
  wk,           \* per worker: position, structure being interned, key found
  max_k,        \* Tig: `max_k`, the Option of conf.max()
  cnt,          \* Tig: `cnt`, the depth being stabilized
  is_done,      \* Tig: `is_done` of the stabilization loop
  work,         \* Tig: the refinements the graph can still undergo
  rounds,       \* history: number of stabilizations the outer loop started
  dones,        \* history: number of Done messages Tig sent
  dom,          \* Domain: the implementation called (Bool, Int or Rat)
  dlhs,         \* Domain: the `lhs` term of the call
  drhs,         \* Domain: the `rhs` term of the call
  dres,         \* Domain: what mk_cmp and mk_eq returned, by name
  cset,         \* Domain: the TermSet handed to choose_rep
  chosen,       \* Domain: what choose_rep returned, by execution
  unroll_step,  \* Tig: conf.step_roll()
  base,         \* Tig: the base checker, its depth and its unrollings
  step,         \* Tig: the step checker, its depth and its unrollings
  base_len,     \* Tig: what base.unroll() returned last
  step_len,     \* Tig: what step.unroll() returned last
  step_restarts \* Tig: how many times step.restart() ran

busVars == <<down, downAlive, up, upAlive, t, k_true, vec, pc, recvRes, getRes>>
histVars == <<sentDown, returned, drained, aliveAtCall, calls, supGot>>
prunerVars == <<to_do, bg>>
pruneVars == <<sysv, invars, inhibited, non_trivial_invs, prPc, models, run, res1,
              neg_active, trivial, sat_iters>>
\* Everything outside the event bus.
restVars == <<prunerVars, pruneVars>>
offVars == <<off2, nxts, offPc>>
\* The state of the term library, which the bus and the pruner leave alone.
mergeVars == <<lhs, rhs, thd, mres>>
factVars == <<table, handles, mutex, wk>>
tigVars == <<max_k, cnt, is_done, work, rounds, dones>>
domVars == <<dom, dlhs, drhs, dres>>
repVars == <<cset, chosen>>
chkVars == <<unroll_step, base, step, base_len, step_len, step_restarts>>
extVars == <<offVars, mergeVars, factVars, tigVars, domVars, repVars, chkVars>>
\* What the steps of one part of the term library leave alone.
notOff == <<busVars, histVars, restVars, mergeVars, factVars, tigVars, domVars, repVars, chkVars>>
notMerge == <<busVars, histVars, restVars, offVars, factVars, tigVars, domVars, repVars, chkVars>>
notFact == <<busVars, histVars, restVars, offVars, mergeVars, tigVars, domVars, repVars, chkVars>>
notDom == <<busVars, histVars, restVars, offVars, mergeVars, factVars, tigVars, repVars, chkVars>>
notRep == <<busVars, histVars, restVars, offVars, mergeVars, factVars, tigVars, chkVars>>
notChk == <<busVars, histVars, restVars, offVars, mergeVars, factVars, tigVars, domVars, repVars>>

----------------------------------------------------------------------------
(* Bounds of the model. *)

\* Number of MsgDown the supervisor sends in one run.
MaxSent == 3
\* Number of upward send calls the worker makes in one run.
MaxCalls == 2
\* Offsets range over 0..MaxOffset.
MaxOffset == 1

----------------------------------------------------------------------------
(* Values. *)

None == {}
Some(x) == {x}

\* Symbols: "p" is a property the Event is created with, "q" is not.
Syms == {"p", "q"}
Props == {"p"}
Offsets == 0 .. MaxOffset
SysSym == "sys"

\* Technique (event/src/lib.rs) with the tags of the later techniques.
Technique == {"Bmc", "Ind"}

\* Info::At(o) and Info::Error.
At(o) == <<"At", o>>
InfoError == <<"Error", 0>>
Infos == {At(o) : o \in Offsets} \cup {InfoError}

\* MsgDown. Every message is a record with the same fields.
MkDown(ty, props, o, sym, invs, tek, info) ==
  [type |-> ty, props |-> props, o |-> o, sym |-> sym, invs |-> invs,
   tek |-> tek, info |-> info]
InvariantPruning(tek, sym, invs, info) ==
  MkDown("InvariantPruning", {}, 0, sym, invs, tek, info)
Invariants(sym, invs) == MkDown("Invariants", {}, 0, sym, invs, "", At(0))
Forget(props) == MkDown("Forget", props, 0, "", {}, "", At(0))
KTrue(props, o) == MkDown("KTrue", props, o, "", {}, "", At(0))

\* MsgUp. Every message is a record with the same fields.
MkUp(ty, tek, props, info, o, text) ==
  [type |-> ty, tek |-> tek, props |-> props, info |-> info, o |-> o,
   text |-> text, invs |-> {}, len |-> 0]
Done(tek, info) == MkUp("Done", tek, {}, info, 0, "")
Bla(tek, s) == MkUp("Bla", tek, {}, At(0), 0, s)
Error(tek, s) == MkUp("Error", tek, {}, At(0), 0, s)
UpKTrue(props, tek, o) == MkUp("KTrue", tek, props, At(0), o, "")
Proved(props, tek, info) == MkUp("Proved", tek, props, info, 0, "")
Disproved(model, props, tek, info) == MkUp("Disproved", tek, props, info, 0, model)

\* The messages the supervisor sends in this model.
PropSets == {{"p"}, {"p", "q"}}
DownMsgs ==
  {KTrue(ps, o) : ps \in PropSets, o \in Offsets}
    \cup {Forget({"p"}), Invariants(SysSym, {})}

----------------------------------------------------------------------------
(* Event: construction and the k_true table. *)

\* Event::mk that allocates the table and inserts nothing.
mk_k_true_empty(props) == [s \in {} |-> None]

\* Event::mk: every property mapped to None.
mk_k_true(props) == [s \in props |-> None]

\* HashMap::insert(p, v).
insert(map, key, v) ==
  [s \in DOMAIN map \cup {key} |-> IF s = key THEN v ELSE map[s]]

\* The loop of recv written with `entry(prop).or_insert(Some(o))`: an
\* existing entry is kept.
absorb_or_insert(map, props, o) ==
  [s \in DOMAIN map \cup props |-> IF s \in DOMAIN map THEN map[s] ELSE Some(o)]

\* The loop of recv inserting None for each property.
absorb_none(map, props, o) ==
  [s \in DOMAIN map \cup props |-> IF s \in props THEN None ELSE map[s]]

\* The `for prop in props { self.k_true.insert(prop, Some(o)) }` of recv.
absorb(map, props, o) ==
  [s \in DOMAIN map \cup props |-> IF s \in props THEN Some(o) ELSE map[s]]

\* Event::get_k_true: the entry, or a panic when the key is missing.
get_k_true(map, sym) ==
  IF sym \in DOMAIN map
  THEN [sym |-> sym, out |-> "ok", val |-> map[sym]]
  ELSE [sym |-> sym, out |-> "panic", val |-> None]

----------------------------------------------------------------------------
(* Event::recv, one try_recv per step. *)

\* Receiver::try_recv on the inbox: a message while one is queued, Empty
\* while the sender is alive, Disconnected once it is dropped and the queue
\* is empty.
try_recv(q, alive) ==
  IF q # <<>> THEN "Ok" ELSE IF alive THEN "Empty" ELSE "Disconnected"

\* `vec.insert(0, msg)` instead of `vec.push(msg)`.
recv_push_front(v, msg) == <<msg>> \o v

\* `Ok( msg ) => vec.push(msg)`.
recv_push(v, msg) == Append(v, msg)

\* `Err( TryRecvError::Empty ) => break` then `Some(vec)`.
recv_on_empty(v) == Some(v)

\* Disconnected handled like Empty: `break`, then `Some(vec)`.
recv_on_disconnected_break(v) == Some(v)

\* `Err( TryRecvError::Disconnected ) => return None`.
recv_on_disconnected(v) == None

\* The worker calls recv(): `let mut vec = vec![]`.
RecvCall(from) ==
  /\ pc = from
  /\ pc' = "recv"
  /\ vec' = <<>>
  /\ drained' = <<>>
  /\ aliveAtCall' = downAlive
  /\ UNCHANGED <<down, downAlive, up, upAlive, t, k_true, recvRes, getRes>>
  /\ UNCHANGED <<sentDown, returned, calls, supGot>>
  /\ UNCHANGED restVars
  /\ UNCHANGED extVars

\* `Ok( MsgDown::KTrue(props, o) )`: absorbed into k_true, not pushed.
RecvKTrue ==
  /\ pc = "recv"
  /\ try_recv(down, downAlive) = "Ok"
  /\ Head(down).type = "KTrue"
  /\ k_true' = absorb(k_true, Head(down).props, Head(down).o)
  /\ down' = Tail(down)
  /\ drained' = Append(drained, Head(down))
  /\ UNCHANGED <<downAlive, up, upAlive, t, vec, pc, recvRes, getRes>>
  /\ UNCHANGED <<sentDown, returned, aliveAtCall, calls, supGot>>
  /\ UNCHANGED restVars
  /\ UNCHANGED extVars

\* `Ok( msg ) => vec.push(msg)`.
RecvOther ==
  /\ pc = "recv"
  /\ try_recv(down, downAlive) = "Ok"
  /\ Head(down).type # "KTrue"
  /\ vec' = recv_push(vec, Head(down))
  /\ down' = Tail(down)
  /\ drained' = Append(drained, Head(down))
  /\ UNCHANGED <<downAlive, up, upAlive, t, k_true, pc, recvRes, getRes>>
  /\ UNCHANGED <<sentDown, returned, aliveAtCall, calls, supGot>>
  /\ UNCHANGED restVars
  /\ UNCHANGED extVars

\* `Err( TryRecvError::Empty ) => break`, then `Some(vec)` is returned.
RecvEmpty(to) ==
  /\ pc = "recv"
  /\ try_recv(down, downAlive) = "Empty"
  /\ recvRes' = [ret |-> TRUE, val |-> recv_on_empty(vec)]
  /\ returned' = returned \o vec
  /\ pc' = to
  /\ UNCHANGED <<down, downAlive, up, upAlive, t, k_true, vec, getRes>>
  /\ UNCHANGED <<sentDown, drained, aliveAtCall, calls, supGot>>
  /\ UNCHANGED restVars
  /\ UNCHANGED extVars

\* `Err( TryRecvError::Disconnected ) => return None`.
RecvDisconnected(to) ==
  /\ pc = "recv"
  /\ try_recv(down, downAlive) = "Disconnected"
  /\ recvRes' = [ret |-> TRUE, val |-> recv_on_disconnected(vec)]
  /\ returned' =
       returned \o (IF recvRes'.val = None THEN <<>> ELSE vec)
  /\ pc' = to
  /\ UNCHANGED <<down, downAlive, up, upAlive, t, k_true, vec, getRes>>
  /\ UNCHANGED <<sentDown, drained, aliveAtCall, calls, supGot>>
  /\ UNCHANGED restVars
  /\ UNCHANGED extVars

----------------------------------------------------------------------------
(* Event: the upward sends and get_k_true, called by a technique. *)

\* A send that queues the message twice.
send_twice(msg, to) ==
  IF upAlive
  THEN up' = Append(Append(up, msg), msg) /\ pc' = to
  ELSE up' = up /\ pc' = "panicked"

\* `self.s.send(msg).unwrap()`: the message is queued while the supervisor
\* holds its receiver; afterwards send returns Err and unwrap panics. `to`
\* is where the caller goes on when send returns.
send(msg, to) ==
  IF upAlive
  THEN up' = Append(up, msg) /\ pc' = to
  ELSE up' = up /\ pc' = "panicked"

\* The message each Event method builds.
done(info) == Done(t, info)
proved(props, info) == Proved(props, t, info)
disproved(model, props, info) == Disproved(model, props, t, info)
k_true_up(props, o) == UpKTrue(props, t, o)
log(s) == Bla(t, s)
error(s) == Error(t, s)

\* One call of an Event send method by the technique.
Call(method, msg) ==
  /\ pc = "idle"
  /\ Len(calls) < MaxCalls
  /\ send(msg, pc)
  /\ calls' = Append(calls, [method |-> method, msg |-> msg])
  /\ UNCHANGED <<down, downAlive, upAlive, t, k_true, vec, recvRes, getRes>>
  /\ UNCHANGED <<sentDown, returned, drained, aliveAtCall, supGot>>
  /\ UNCHANGED restVars
  /\ UNCHANGED extVars

CallDone == \E info \in {At(MaxOffset), InfoError} : Call("done", done(info))
CallProved == \E info \in {At(MaxOffset)} : Call("proved", proved({"p"}, info))
CallDisproved == \E info \in {At(MaxOffset)} : Call("disproved", disproved("cex", {"p"}, info))
CallKTrue == \E o \in {MaxOffset} : Call("k_true", k_true_up({"p"}, o))
CallLog == Call("log", log("bla"))
CallError == Call("error", error("err"))

\* The technique calls get_k_true(sym).
GetKTrue ==
  /\ pc = "idle"
  /\ \E sym \in Syms :
       /\ getRes' = get_k_true(k_true, sym)
       /\ pc' = IF getRes'.out = "panic" THEN "panicked" ELSE pc
  /\ UNCHANGED <<down, downAlive, up, upAlive, t, k_true, vec, recvRes>>
  /\ UNCHANGED histVars
  /\ UNCHANGED restVars
  /\ UNCHANGED extVars

----------------------------------------------------------------------------
(* The supervisor's side of the two channels. *)

\* The supervisor sends one message down.
SupSend(msgs) ==
  /\ downAlive
  /\ Len(sentDown) < MaxSent
  /\ \E m \in msgs :
       /\ down' = Append(down, m)
       /\ sentDown' = Append(sentDown, m)
  /\ UNCHANGED <<downAlive, up, upAlive, t, k_true, vec, pc, recvRes, getRes>>
  /\ UNCHANGED <<returned, drained, aliveAtCall, calls, supGot>>
  /\ UNCHANGED restVars
  /\ UNCHANGED extVars

\* The supervisor receives the next message of the worker.
SupRecv ==
  /\ upAlive
  /\ up # <<>>
  /\ supGot' = Append(supGot, Head(up))
  /\ up' = Tail(up)
  /\ UNCHANGED <<down, downAlive, upAlive, t, k_true, vec, pc, recvRes, getRes>>
  /\ UNCHANGED <<sentDown, returned, drained, aliveAtCall, calls>>
  /\ UNCHANGED restVars
  /\ UNCHANGED extVars

\* The supervisor drops its Sender<MsgDown>.
SupDropSender ==
  /\ downAlive
  /\ downAlive' = FALSE
  /\ UNCHANGED <<down, up, upAlive, t, k_true, vec, pc, recvRes, getRes>>
  /\ UNCHANGED histVars
  /\ UNCHANGED restVars
  /\ UNCHANGED extVars

\* The supervisor drops its Receiver<MsgUp>.
SupDropReceiver ==
  /\ upAlive
  /\ upAlive' = FALSE
  /\ UNCHANGED <<down, downAlive, up, t, k_true, vec, pc, recvRes, getRes>>
  /\ UNCHANGED histVars
  /\ UNCHANGED restVars
  /\ UNCHANGED extVars

----------------------------------------------------------------------------
(* The downward half of the bus: the supervisor sends and drops its        *)
(* sender, a technique calls recv() and get_k_true() in any order.         *)

vars == <<busVars, histVars, restVars, extVars>>

InitBus ==
  /\ down = <<>>
  /\ downAlive = TRUE
  /\ up = <<>>
  /\ upAlive = TRUE
  /\ k_true = mk_k_true(Props)
  /\ vec = <<>>
  /\ recvRes = [ret |-> FALSE, val |-> None]
  /\ getRes = [sym |-> "p", out |-> "none", val |-> None]
  /\ sentDown = <<>>
  /\ returned = <<>>
  /\ drained = <<>>
  /\ aliveAtCall = TRUE
  /\ calls = <<>>
  /\ supGot = <<>>

\* No pruner and no prune running.
InitRest ==
  /\ to_do = None
  /\ bg = {}
  /\ sysv = [init |-> {}, trans |-> {}]
  /\ invars = {}
  /\ inhibited = {}
  /\ non_trivial_invs = {}
  /\ prPc = "idle"
  /\ models = {}
  /\ neg_active = {}
  /\ trivial = {}
  /\ sat_iters = 0
  /\ run = 1
  /\ res1 = {}

\* A checker session of Tig (Base, Step): its depth, and the unroll() calls
\* made on it since it was created or restarted.
\* `Base::mk(& sys, solver, 0)`.
Base_mk == [len |-> 0, unrolls |-> 0]
\* `unroll()`: one step further; it returns the new depth.
unroll(chk) == [len |-> chk.len + 1, unrolls |-> chk.unrolls + 1]
\* `to_step()`: the session as a step session.
to_step(chk) == chk
\* A restart that re-declares the session up to the depth it had.
restart_keep(chk) == [len |-> chk.len, unrolls |-> 0]
\* `restart()`: the solver state is discarded, the baseline re-declared.
restart(chk) == [len |-> 0, unrolls |-> 0]

\* Offset2::init(), no nxt applied.
InitExt ==
  /\ off2 = [curr |-> 0, next |-> 1]
  /\ nxts = 0
  /\ offPc = "ok"
  /\ lhs = [tag |-> "No", lo |-> 0, hi |-> 0]
  /\ rhs = lhs
  /\ thd = lhs
  /\ mres = <<>>
  /\ table = {}
  /\ handles = <<>>
  /\ mutex = {}
  /\ wk = <<>>
  /\ max_k = {}
  /\ cnt = 1
  /\ is_done = FALSE
  /\ work = 0
  /\ rounds = 0
  /\ dones = 0
  /\ dom = "Bool"
  /\ dlhs = "true"
  /\ drhs = "true"
  /\ dres = <<>>
  /\ cset = {}
  /\ chosen = <<>>
  /\ unroll_step = FALSE
  /\ base = Base_mk
  /\ step = to_step(unroll(Base_mk))
  /\ base_len = None
  /\ step_len = None
  /\ step_restarts = 0

Init ==
  /\ InitBus
  /\ InitRest
  /\ InitExt
  /\ t = "Bmc"
  /\ pc = "idle"

Next ==
  \/ RecvCall("idle")
  \/ RecvKTrue
  \/ RecvOther
  \/ RecvEmpty("idle")
  \/ RecvDisconnected("idle")
  \/ GetKTrue
  \/ SupSend(DownMsgs)
  \/ SupDropSender

Spec == Init /\ [][Next]_vars

----------------------------------------------------------------------------
(* The upward half of the bus: a technique calls the send methods of its   *)
(* Event in any order, the supervisor receives and drops its receiver.     *)

InitUp ==
  /\ InitBus
  /\ InitRest
  /\ InitExt
  /\ t \in Technique
  /\ pc = "idle"

NextUp ==
  \/ CallDone
  \/ CallProved
  \/ CallDisproved
  \/ CallKTrue
  \/ CallLog
  \/ CallError
  \/ SupRecv
  \/ SupDropReceiver

SpecUp == InitUp /\ [][NextUp]_vars

----------------------------------------------------------------------------
(* Properties of the event bus.                                            *)

Max(S) == CHOOSE x \in S : \A y \in S : y <= x

IsPrefix(a, b) == Len(a) <= Len(b) /\ SubSeq(b, 1, Len(a)) = a

IsKTrue(m) == m.type = "KTrue"
NotKTrue(m) == m.type # "KTrue"

\* The messages try_recv has handed to the worker so far, over all calls.
Consumed == SubSeq(sentDown, 1, Len(sentDown) - Len(down))

\* The positions of `seq` holding a KTrue that names `p`.
Naming(seq, p) == {i \in DOMAIN seq : IsKTrue(seq[i]) /\ p \in seq[i].props}

\* recv() has completed at least once and the worker is back in its caller.
RecvReturned == pc = "idle" /\ recvRes.ret

\* recv() has returned None (and does so for ever after).
NoneReturned == recvRes.ret /\ recvRes.val = None

\* No batch recv() returned holds a KTrue.
NoKTrueInBatch ==
  /\ \A i \in DOMAIN returned : NotKTrue(returned[i])
  /\ \A b \in recvRes.val : \A i \in DOMAIN b : NotKTrue(b[i])

\* C1, as stated: recv() never returns a KTrue in its batch and, once it has
\* returned, get_k_true(p) is Some(o) for every KTrue(props, o) it drained
\* and every p of props.
C1_EveryDrainedOffsetReadable ==
  /\ NoKTrueInBatch
  /\ RecvReturned =>
       \A i \in DOMAIN drained : IsKTrue(drained[i]) =>
         \A p \in drained[i].props :
           /\ get_k_true(k_true, p).out = "ok"
           /\ get_k_true(k_true, p).val = Some(drained[i].o)

\* C1, amended: recv() never returns a KTrue in its batch and, for every
\* property p named by a KTrue it drained, get_k_true(p) is Some(o) for the
\* offset o of the last drained KTrue that names p.
C1_LastDrainedOffsetReadable ==
  /\ NoKTrueInBatch
  /\ \A p \in Syms : Naming(drained, p) # {} =>
       /\ get_k_true(k_true, p).out = "ok"
       /\ get_k_true(k_true, p).val = Some(drained[Max(Naming(drained, p))].o)

\* C1 witness: a recv() that drained two KTrue for one property and a
\* message it returned.
C1_Witness ==
  /\ RecvReturned
  /\ \E b \in recvRes.val : b # <<>>
  /\ Cardinality(Naming(drained, "p")) >= 2

\* C2: a recv() called after the supervisor dropped its sender returns None
\* whatever was queued; a recv() that returns while the sender is alive
\* returns Some(batch); inside recv some branch of the match is always
\* enabled (it never waits).
C2_NoneIffDropped ==
  /\ RecvReturned /\ ~aliveAtCall => recvRes.val = None
  /\ RecvReturned /\ downAlive => recvRes.val # None
  /\ pc = "recv" =>
       ENABLED (RecvKTrue \/ RecvOther \/ RecvEmpty("idle") \/ RecvDisconnected("idle"))

\* C2 witness: recv() called after the drop, with messages still queued,
\* has returned None.
C2_Witness ==
  /\ RecvReturned
  /\ ~aliveAtCall
  /\ recvRes.val = None
  /\ Len(drained) >= 2

\* C3, as stated: nothing is lost, duplicated or reordered. Once a recv()
\* has returned and the inbox is empty, the batches returned so far are
\* exactly the non-KTrue messages sent.
C3_NothingLost ==
  RecvReturned /\ down = <<>> =>
    returned = SelectSeq(sentDown, NotKTrue)

\* C3, amended: nothing is duplicated or reordered (the batches returned are
\* a prefix of the non-KTrue messages sent, in send order), and nothing is
\* lost before a recv() returns None: until then every non-KTrue message
\* sent is returned, in the running recv's vec, or still queued.
C3_FifoUntilNone ==
  /\ IsPrefix(returned, SelectSeq(sentDown, NotKTrue))
  /\ ~NoneReturned =>
       returned \o (IF pc = "recv" THEN vec ELSE <<>>) \o SelectSeq(down, NotKTrue)
         = SelectSeq(sentDown, NotKTrue)
  /\ RecvReturned /\ ~NoneReturned /\ down = <<>> =>
       returned = SelectSeq(sentDown, NotKTrue)

\* C3 witness: two messages were returned in order, and a later recv()
\* returned None having drained a third one.
C3_Witness ==
  /\ RecvReturned
  /\ NoneReturned
  /\ Len(returned) >= 2
  /\ Len(SelectSeq(sentDown, NotKTrue)) > Len(returned)

\* C4, as stated: the entry of p is the greatest offset of the KTrue
\* received that name p, and None when there is none.
C4_GreatestOffset ==
  \A p \in DOMAIN k_true :
    LET offs == {Consumed[i].o : i \in Naming(Consumed, p)}
    IN  k_true[p] = IF offs = {} THEN None ELSE Some(Max(offs))

\* C5, as stated: get_k_true(sym) panics exactly when sym is not a property
\* the Event was created with, and returns None for a created property
\* until a KTrue naming it has been received.
C5_PanicsIffNotCreated ==
  /\ \A sym \in Syms :
       get_k_true(k_true, sym).out = "panic" <=> sym \notin Props
  /\ \A sym \in Props :
       Naming(Consumed, sym) = {} => get_k_true(k_true, sym).val = None

\* C5, amended: get_k_true(sym) panics exactly when sym is neither a property
\* the Event was created with nor named by a KTrue received so far; a created
\* property reads None until a KTrue naming it has been received, and a
\* worker that panicked in get_k_true asked for such an unknown symbol.
C5_PanicsIffUnknown ==
  /\ \A sym \in Syms :
       get_k_true(k_true, sym).out = "panic"
         <=> (sym \notin Props /\ Naming(Consumed, sym) = {})
  /\ \A sym \in Props :
       Naming(Consumed, sym) = {} => get_k_true(k_true, sym).val = None
  /\ pc = "panicked" =>
       /\ getRes.out = "panic"
       /\ getRes.sym \notin Props
       /\ Naming(Consumed, getRes.sym) = {}

\* C5 witness: get_k_true returned Some(o) for a symbol the Event was not
\* created with.
C5_Witness ==
  /\ getRes.out = "ok"
  /\ getRes.sym \notin Props
  /\ getRes.val # None

----------------------------------------------------------------------------
(* Properties of the upward sends.                                         *)

\* The MsgUp variant each send method must produce.
VariantOf(method) ==
  CASE method = "done" -> "Done"
    [] method = "proved" -> "Proved"
    [] method = "disproved" -> "Disproved"
    [] method = "k_true" -> "KTrue"
    [] method = "log" -> "Bla"
    [] method = "error" -> "Error"

CallMsgs(cs) == [i \in DOMAIN cs |-> cs[i].msg]

RightVariant ==
  \A i \in DOMAIN calls :
    /\ calls[i].msg.type = VariantOf(calls[i].method)
    /\ calls[i].msg.tek = t

\* C6, as stated: every call enqueues exactly one MsgUp of its variant with
\* the Event's technique, and the supervisor receives them in call order.
C6_EveryCallEnqueued ==
  /\ RightVariant
  /\ supGot \o up = CallMsgs(calls)

\* C6, amended: every call made while the supervisor holds its receiver
\* enqueues exactly one MsgUp of its variant with the Event's technique, and
\* the supervisor receives them in call order; a call made after the
\* receiver was dropped enqueues nothing and panics.
C6_EveryCallEnqueuedWhileAlive ==
  /\ RightVariant
  /\ pc # "panicked" => supGot \o up = CallMsgs(calls)
  /\ pc = "panicked" =>
       /\ ~upAlive
       /\ calls # <<>>
       /\ supGot \o up = CallMsgs(SubSeq(calls, 1, Len(calls) - 1))

\* C6 witness: the supervisor received two messages of different variants.
C6_Witness ==
  /\ Len(supGot) >= 2
  /\ supGot[1].type # supGot[2].type
  /\ upAlive

----------------------------------------------------------------------------
(* prune (pruner/src/lib.rs).  A transition system is a finite set of      *)
(* states with its initial states and its transition pairs; a candidate    *)
(* invariant is the set of the states that satisfy it.  The solver session *)
(* holds the initial predicate at k.curr and one transition to k.next      *)
(* (unroll_init), plus the invariants received from the supervisor.        *)

\* Number of candidates of a pruning request.
MaxCands == 3

SysStates == {0, 1, 2}
SysCount == [init |-> {0}, trans |-> {<<0, 1>>, <<1, 2>>, <<2, 2>>}]
SysFlip == [init |-> {0, 1}, trans |-> {<<0, 1>>, <<1, 0>>, <<2, 2>>}]
SysAny == [init |-> {0, 1, 2}, trans |-> {<<0, 0>>, <<0, 1>>, <<1, 2>>, <<2, 0>>}]
SysFork == [init |-> {0}, trans |-> {<<0, 1>>, <<0, 2>>, <<1, 1>>, <<2, 2>>}]
Systems == {SysCount, SysFlip, SysAny, SysFork}

\* The candidate sets (STermSet) of at most MaxCands candidates.
CandSets == {C \in SUBSET (SUBSET SysStates) : Cardinality(C) <= MaxCands}

\* The models of check_sat_assuming: a pair (state at k.curr, state at
\* k.next) of the unrolled system that satisfies the supervisor's
\* invariants, every candidate whose positive actlit is assumed at k.curr,
\* and the negation of `neg` at k.next.
Models(sys, back, active, neg) ==
  {m \in sys.trans :
     /\ m[1] \in sys.init
     /\ \A b \in back : m[1] \in b /\ m[2] \in b
     /\ \A c \in active : m[1] \in c
     /\ m[2] \notin neg}

\* InvManager::one_false_next: the not-yet-decided candidates, one of which
\* is picked (None when there is none).
one_false_next(cands, inh) == cands \ inh

\* InvManager::actlits: all positive actlits.
actlits(cands, inh) == cands

\* A get_false_next that reports no candidate.
get_false_next_none(cands, inh, m) == {}

\* InvManager::get_false_next: the remaining candidates the model falsifies
\* at k.next.
get_false_next(cands, inh, m) == {c \in cands \ inh : m[2] \notin c}

\* InvManager::inhibit.
inhibit(inh, falsified) == inh \cup falsified

\* `unroller.fresh_actlit()` with `unroller.assert(& implication, & k)`: a
\* negative actlit, named after the candidate it negates, is in the session.
activate(active, picked) == active \cup {picked}

\* `unroller.deactivate(actlit)`.
deactivate(active, picked) == active \ {picked}

\* A SAT branch that inserts every remaining candidate, falsified or not.
prune_sat_remaining(non_trivial, falsified) ==
  non_trivial \cup (invars \ inhibited)

\* `for falsified in falsified.into_iter() { non_trivial_invs.insert(..) }`.
prune_sat(non_trivial, falsified) == non_trivial \cup falsified

\* An UNSAT branch that keeps the candidate it could not falsify.
prune_unsat_keep(non_trivial, picked) == non_trivial \cup {picked}

\* The UNSAT branch: `break`, non_trivial_invs is left as it is.
prune_unsat(non_trivial, picked) == non_trivial

\* InvManager::mk and `STermSet::with_capacity`: the start of prune.
PruneEnter(cands) ==
  /\ invars' = cands
  /\ inhibited' = {}
  /\ non_trivial_invs' = {}
  /\ models' = {}
  /\ prPc' = "loop"
  /\ trivial' = {}
  /\ sat_iters' = 0
  /\ UNCHANGED neg_active

\* One iteration whose check_sat_assuming is SAT.
PruneSat ==
  /\ prPc = "loop"
  /\ \E picked \in one_false_next(invars, inhibited) :
       \E m \in Models(sysv, bg, actlits(invars, inhibited), picked) :
         LET falsified == get_false_next(invars, inhibited, m)
         IN  /\ inhibited' = inhibit(inhibited, falsified)
             /\ non_trivial_invs' = prune_sat(non_trivial_invs, falsified)
             /\ models' = models \cup {m}
             /\ neg_active' = deactivate(activate(neg_active, picked), picked)
  /\ sat_iters' = sat_iters + 1
  /\ UNCHANGED <<sysv, invars, prPc, run, res1, trivial>>
  /\ UNCHANGED <<busVars, histVars, prunerVars>>
  /\ UNCHANGED extVars

\* One iteration whose check_sat_assuming is UNSAT: `break`.
PruneUnsat ==
  /\ prPc = "loop"
  /\ \E picked \in one_false_next(invars, inhibited) :
       /\ Models(sysv, bg, actlits(invars, inhibited), picked) = {}
       /\ non_trivial_invs' = prune_unsat(non_trivial_invs, picked)
       /\ neg_active' = activate(neg_active, picked)
       /\ trivial' = trivial \cup {picked}
  /\ prPc' = "ret"
  /\ UNCHANGED <<sysv, invars, inhibited, models, run, res1, sat_iters>>
  /\ UNCHANGED <<busVars, histVars, prunerVars>>
  /\ UNCHANGED extVars

\* one_false_next returns None: the loop ends.
PruneNone ==
  /\ prPc = "loop"
  /\ one_false_next(invars, inhibited) = {}
  /\ prPc' = "ret"
  /\ UNCHANGED <<sysv, invars, inhibited, non_trivial_invs, models, run, res1>>
  /\ UNCHANGED <<neg_active, trivial, sat_iters>>
  /\ UNCHANGED <<busVars, histVars, prunerVars>>
  /\ UNCHANGED extVars

\* prune is called again on the set it returned.
PruneAgain ==
  /\ prPc = "ret"
  /\ run = 1
  /\ run' = 2
  /\ res1' = non_trivial_invs
  /\ PruneEnter(non_trivial_invs)
  /\ UNCHANGED sysv
  /\ UNCHANGED <<busVars, histVars, prunerVars>>
  /\ UNCHANGED extVars

\* prune on any candidate set, any of the systems, with or without an
\* invariant of the supervisor in the session.
InitPrune ==
  /\ InitBus
  /\ InitExt
  /\ t = "Pruner"
  /\ pc = "prune"
  /\ to_do = None
  /\ bg \in {{}, {{0, 1}}}
  /\ sysv \in Systems
  /\ invars \in CandSets
  /\ inhibited = {}
  /\ non_trivial_invs = {}
  /\ prPc = "loop"
  /\ models = {}
  /\ neg_active = {}
  /\ trivial = {}
  /\ sat_iters = 0
  /\ run = 1
  /\ res1 = {}

NextPrune ==
  \/ PruneSat
  \/ PruneUnsat
  \/ PruneNone
  \/ PruneAgain

SpecPrune == InitPrune /\ [][NextPrune]_vars

----------------------------------------------------------------------------
(* The pruner's loop (pruner/src/lib.rs, fn pruner).                       *)

\* What the pruner publishes: pruned_invariants(tek, sym, invariants,
\* old_len, info).
pruned_invariants(tek, sym, invariants, old_len, info) ==
  [type |-> "PrunedInvariants", tek |-> tek, props |-> {}, info |-> info,
   o |-> 0, text |-> sym, invs |-> invariants, len |-> old_len]

\* The positions of the messages of `msgs` of type `ty` for the pruner's
\* system (`if * sys == sym`).
ForSys(msgs, ty) ==
  {i \in DOMAIN msgs : msgs[i].type = ty /\ msgs[i].sym = SysSym}

\* An add_invs that runs only for the Invariants read before the last
\* pruning request of the batch.
add_invs_before_request(back, msgs) ==
  LET reqs == ForSys(msgs, "InvariantPruning")
  IN  back \cup UNION {msgs[i].invs :
                        i \in {j \in ForSys(msgs, "Invariants") :
                                 \A r \in reqs : j < r}}

\* The invariants `unroller.add_invs` asserts while the batch is read.
add_invs(back, msgs) ==
  back \cup UNION {msgs[i].invs : i \in ForSys(msgs, "Invariants")}

\* `to_do = Some( (tek, invs, info) )` for each request of the batch: the
\* last one stays.
to_do_after(td, msgs) ==
  LET reqs == ForSys(msgs, "InvariantPruning")
  IN  IF reqs = {}
      THEN td
      ELSE LET m == msgs[Max(reqs)]
           IN  Some([tek |-> m.tek, invs |-> m.invs, info |-> m.info])

\* `None => return ()`.
PrunerExit ==
  /\ pc = "got"
  /\ recvRes.val = None
  /\ pc' = "exited"
  /\ UNCHANGED <<down, downAlive, up, upAlive, t, k_true, vec, recvRes, getRes>>
  /\ UNCHANGED <<histVars, restVars>>
  /\ UNCHANGED extVars

\* `Some(msgs) => for msg in msgs { match msg { .. } }`.
PrunerBatch ==
  /\ pc = "got"
  /\ \E msgs \in recvRes.val :
       /\ bg' = add_invs(bg, msgs)
       /\ to_do' = to_do_after(to_do, msgs)
  /\ pc' = "match"
  /\ UNCHANGED <<down, downAlive, up, upAlive, t, k_true, vec, recvRes, getRes>>
  /\ UNCHANGED <<histVars, pruneVars>>
  /\ UNCHANGED extVars

\* `match to_do { Some( (tek, invs, info) ) => .. prune(..) ..`.
PrunerPrune ==
  /\ pc = "match"
  /\ \E req \in to_do : PruneEnter(req.invs)
  /\ pc' = "prune"
  /\ UNCHANGED <<down, downAlive, up, upAlive, t, k_true, vec, recvRes, getRes>>
  /\ UNCHANGED <<histVars, prunerVars, sysv, run, res1>>
  /\ UNCHANGED extVars

\* `event.pruned_invariants(tek, sys.sym(), invariants, old_len, info)`, then
\* `to_do = None` and the next turn of the loop.
PrunerPublish ==
  /\ pc = "prune"
  /\ prPc = "ret"
  /\ \E req \in to_do :
       LET msg == pruned_invariants(req.tek, SysSym, non_trivial_invs,
                                    Cardinality(req.invs), req.info)
       IN  /\ send(msg, "poll")
           /\ calls' = Append(calls, [method |-> "pruned_invariants", msg |-> msg])
  /\ to_do' = None
  /\ prPc' = "idle"
  /\ UNCHANGED <<down, downAlive, upAlive, t, k_true, vec, recvRes, getRes>>
  /\ UNCHANGED <<sentDown, returned, drained, aliveAtCall, supGot>>
  /\ UNCHANGED <<bg, sysv, invars, inhibited, non_trivial_invs, models, run, res1>>
  /\ UNCHANGED <<neg_active, trivial, sat_iters>>
  /\ UNCHANGED extVars

\* `None => sleep(duration)`, then `to_do = None` and the next turn.
PrunerSleep ==
  /\ pc = "match"
  /\ to_do = None
  /\ pc' = "poll"
  /\ UNCHANGED <<down, downAlive, up, upAlive, t, k_true, vec, recvRes, getRes>>
  /\ UNCHANGED <<histVars, restVars>>
  /\ UNCHANGED extVars

\* The messages the supervisor sends to the pruner in this model.
ReqA == InvariantPruning("Tig", SysSym, {{0}, {0, 2}}, At(0))
ReqB == InvariantPruning("Ind", SysSym, {{0}, {0, 1}, {0, 1, 2}}, At(MaxOffset))
ReqOther == InvariantPruning("Tig", "other", {{0}}, At(0))
PrunerMsgs ==
  {ReqA, ReqB, ReqOther, Invariants(SysSym, {{0, 1}}), Forget({"p"}),
   KTrue({"p"}, MaxOffset)}

InitPruner ==
  /\ InitBus
  /\ InitExt
  /\ t = "Pruner"
  /\ pc = "poll"
  /\ to_do = None
  /\ bg = {}
  /\ sysv = SysCount
  /\ invars = {}
  /\ inhibited = {}
  /\ non_trivial_invs = {}
  /\ prPc = "idle"
  /\ models = {}
  /\ neg_active = {}
  /\ trivial = {}
  /\ sat_iters = 0
  /\ run = 1
  /\ res1 = {}

NextPruner ==
  \/ RecvCall("poll")
  \/ RecvKTrue
  \/ RecvOther
  \/ RecvEmpty("got")
  \/ RecvDisconnected("got")
  \/ PrunerExit
  \/ PrunerBatch
  \/ PrunerPrune
  \/ PruneSat
  \/ PruneUnsat
  \/ PruneNone
  \/ PrunerPublish
  \/ PrunerSleep
  \/ SupSend(PrunerMsgs)
  \/ SupRecv
  \/ SupDropSender
  \/ SupDropReceiver

SpecPruner == InitPruner /\ [][NextPruner]_vars

----------------------------------------------------------------------------
(* Properties of the pruner.                                               *)

IsOwnRequest(m) == m.type = "InvariantPruning" /\ m.sym = SysSym

\* The pruning requests for the pruner's system that recv() returned to it.
Requests == SelectSeq(returned, IsOwnRequest)

\* C7: once the supervisor has dropped its two endpoints the worker exits
\* cleanly, it never panics.
C7_NeverPanics == ~downAlive /\ ~upAlive => pc # "panicked"

\* C8, as stated: with the supervisor alive, once the pruner is back at its
\* poll it has published exactly one pruned_invariants for every request it
\* received, carrying that request's tek, info and original size.
C8_OneAnswerPerRequest ==
  pc = "poll" /\ upAlive /\ downAlive =>
    /\ Len(calls) = Len(Requests)
    /\ \A i \in DOMAIN calls :
         /\ calls[i].msg.tek = Requests[i].tek
         /\ calls[i].msg.info = Requests[i].info
         /\ calls[i].msg.len = Cardinality(Requests[i].invs)

IsOwnInvariants(m) == m.type = "Invariants" /\ m.sym = SysSym

\* C29: every Invariants message for the pruner's system of a batch is
\* asserted in the solver session before the pruning request of that batch
\* runs, wherever the two messages stand in the batch: while prune runs,
\* the session holds the invariants of every such message returned so far.
C29_InvariantsBeforePruning ==
  pc = "prune" =>
    \A i \in DOMAIN returned :
      IsOwnInvariants(returned[i]) => returned[i].invs \subseteq bg

\* C29 witness: prune runs on the request of a batch that held an
\* Invariants message for the system after that request.
C29_Witness ==
  /\ pc = "prune"
  /\ prPc = "loop"
  /\ bg # {}
  /\ \E msgs \in recvRes.val :
       \E i \in DOMAIN msgs : \E j \in DOMAIN msgs :
         /\ i < j
         /\ IsOwnRequest(msgs[i])
         /\ IsOwnInvariants(msgs[j])
         /\ \A req \in to_do : req.invs = msgs[i].invs

\* The messages recv() leaves k_true alone for.
IsForgetOrInvariants(m) == m.type \in {"Forget", "Invariants"}

\* No step removes an entry of k_true or brings one back to None, an entry
\* a step adds or changes holds Some(offset), and a step that takes a
\* Forget or an Invariants off the inbox leaves k_true as it is.
KTrueKept ==
  [][/\ \A s \in DOMAIN k_true :
          /\ s \in DOMAIN k_true'
          /\ k_true[s] # None => k_true'[s] # None
     /\ \A s \in DOMAIN k_true' :
          (IF s \in DOMAIN k_true THEN k_true'[s] # k_true[s] ELSE TRUE)
            => k_true'[s] # None
     /\ pc = "recv" /\ down # <<>> /\ down' = Tail(down)
          /\ IsForgetOrInvariants(Head(down))
          => k_true' = k_true /\ vec' = Append(vec, Head(down))]_vars

\* C30, as stated: no received message removes a k_true entry or resets it
\* to None, and the Forget and Invariants messages leave k_true unchanged
\* and are returned in the batch: once recv() has returned, every Forget
\* and Invariants it took off the inbox is in the batch it returned.
C30_KTrueKeptAndReturned ==
  /\ KTrueKept
  /\ [](RecvReturned /\ SelectSeq(drained, IsForgetOrInvariants) # <<>> =>
          \E msgs \in recvRes.val :
            msgs = SelectSeq(drained, IsForgetOrInvariants))

\* C30, amended: no received message removes a k_true entry or resets it to
\* None, the Forget and Invariants messages leave k_true unchanged, and
\* they are returned in the batch when recv() returns one: a recv() that
\* returns None returns none of them.
C30_KTrueKeptAndReturnedInSome ==
  /\ KTrueKept
  /\ [](RecvReturned /\ ~NoneReturned =>
          \E msgs \in recvRes.val :
            msgs = SelectSeq(drained, IsForgetOrInvariants))

\* C30 witness: a recv() that took a KTrue and then a Forget naming the same
\* property returned the Forget in its batch, the entry still set.
C30_Witness ==
  /\ RecvReturned
  /\ ~NoneReturned
  /\ Len(drained) = 2
  /\ drained[1].type = "KTrue"
  /\ drained[2].type = "Forget"
  /\ recvRes.val = Some(<<drained[2]>>)
  /\ k_true["p"] = Some(drained[1].o)

----------------------------------------------------------------------------
(* Properties of prune.                                                    *)

\* C9: prune run on the set prune returned returns that set.
C9_Idempotent ==
  run = 2 /\ prPc = "ret" => non_trivial_invs = res1

\* C9 witness: a first prune kept two candidates and the prune run on them
\* has returned, every check of it having been SAT.
C9_Witness ==
  /\ run = 2
  /\ prPc = "ret"
  /\ Cardinality(res1) >= 2
  /\ models # {}

\* C10: the set prune builds is a subset of the candidates, and every
\* member was falsified at k.next by a model obtained during the run.
C10_SubsetAndFalsified ==
  /\ non_trivial_invs \subseteq invars
  /\ \A c \in non_trivial_invs : \E m \in models : m[2] \notin c

\* C10 witness: prune returned a proper, non-empty subset of its candidates.
C10_Witness ==
  /\ run = 1
  /\ prPc = "ret"
  /\ non_trivial_invs # {}
  /\ non_trivial_invs # invars

\* C11: when prune returns, every candidate it removed is implied by the
\* candidates it kept: in every step of the system from a state that
\* satisfies all the candidates (and the supervisor's invariants), if the
\* next state satisfies the kept candidates it satisfies the removed one.
C11_FixedPoint ==
  prPc = "ret" =>
    \A c \in invars \ non_trivial_invs :
      \A m \in Models(sysv, bg, invars, {}) :
        (\A r \in non_trivial_invs : m[2] \in r) => m[2] \in c

\* C26: every negative actlit prune creates is deactivated before prune
\* returns, on the SAT branch and on the UNSAT branch: none is left active
\* in the session once prune is out of its loop.
C26_NegativeActlitsDeactivated ==
  prPc # "loop" => neg_active = {}

\* C27: an UNSAT check marks only the picked candidate trivial and the loop
\* goes on: prune returns only once every candidate is decided, trivial by
\* its own UNSAT check or non-trivial by a SAT model.
C27_ReturnsWhenAllDecided ==
  prPc = "ret" => \A c \in invars : c \in trivial \/ c \in inhibited

\* prune with its loop scheduled: an iteration that can run does run.
SpecPruneFair == InitPrune /\ [][NextPrune]_vars /\ WF_vars(NextPrune)

\* C28: prune terminates: each SAT iteration inhibits at least one
\* candidate that was not decided, so that the undecided candidates
\* strictly decrease, the SAT iterations are at most |C|, and the loop is
\* left.
C28_PruneTerminates ==
  /\ [](sat_iters + Cardinality(invars \ inhibited) <= Cardinality(invars))
  /\ [][sat_iters' = sat_iters + 1
          => /\ inhibited \subseteq inhibited'
             /\ inhibited' # inhibited
             /\ inhibited' \subseteq invars']_vars
  /\ (prPc = "loop" ~> prPc = "ret")

\* C28 witness: prune returned after as many SAT iterations as it had
\* candidates, two of them, each iteration inhibiting one candidate.
C28_Witness ==
  /\ prPc = "ret"
  /\ Cardinality(invars) = 2
  /\ sat_iters = 2
  /\ inhibited = invars

----------------------------------------------------------------------------
(* Offset and Offset2 (term/src/base.rs).  An Offset is a u16; `+` on u16  *)
(* panics on overflow when overflow checks are compiled in and wraps       *)
(* around when they are not.                                               *)

\* Number of values of a u16.
U16 == 65536
\* Number of Offset2::nxt applied in one run.
MaxNxt == 65536

\* The bus and the pruner at rest, for the runs of the term library.
InitQuiet ==
  /\ InitBus
  /\ InitRest
  /\ t = "Bmc"
  /\ pc = "idle"

\* Offset::of_int, `u16::from_str_radix(& int.to_string(), 10).unwrap()`:
\* the unwrap panics when the usize is not a u16.
of_int(int) ==
  IF int < U16
  THEN [out |-> "ok", offset |-> int]
  ELSE [out |-> "panic", offset |-> 0]

\* Offset::nxt, `self.offset + 1u16`: the outcomes of the addition.
Offset_nxt(offset) ==
  IF offset + 1 < U16
  THEN {[out |-> "ok", offset |-> offset + 1]}
  ELSE {[out |-> "panic", offset |-> offset],
        [out |-> "ok", offset |-> (offset + 1) % U16]}

\* Offset2::init.
Offset2_init == [curr |-> of_int(0).offset, next |-> of_int(1).offset]

\* Offset2 indexed by a State (Curr or Next).
Index(o, i) == IF i = "Curr" THEN o.curr ELSE o.next

\* Offset2::nxt: `curr: self.curr.nxt(), next: self.next.nxt()`.
Offset2Nxt ==
  /\ offPc = "ok"
  /\ nxts < MaxNxt
  /\ \E c \in Offset_nxt(off2.curr), n \in Offset_nxt(off2.next) :
       IF c.out = "ok" /\ n.out = "ok"
       THEN /\ off2' = [curr |-> c.offset, next |-> n.offset]
            /\ nxts' = nxts + 1
            /\ offPc' = "ok"
       ELSE /\ offPc' = "panicked"
            /\ UNCHANGED <<off2, nxts>>
  /\ UNCHANGED notOff

InitOffset ==
  /\ InitQuiet
  /\ InitExt

NextOffset ==
  \/ Offset2Nxt

SpecOffset == InitOffset /\ [][NextOffset]_vars

\* C12: nxt applied k times to Offset2::init() yields a pair whose curr is
\* k and whose next is k + 1, for every k.
C12_CurrIsKNextIsKPlusOne ==
  /\ offPc = "ok"
  /\ Index(off2, "Curr") = nxts
  /\ Index(off2, "Next") = nxts + 1

----------------------------------------------------------------------------
(* Smt2Offset and Smt2Offset::merge (term/src/base.rs).  A value is a      *)
(* record with its variant and its offsets; an Option<Smt2Offset> is a set *)
(* with at most one element.                                               *)

\* Offsets of the merged values range over 0..MaxMergeOffset.
MaxMergeOffset == 2

No == [tag |-> "No", lo |-> 0, hi |-> 0]
One(o) == [tag |-> "One", lo |-> o, hi |-> o]
Two(lo, hi) == [tag |-> "Two", lo |-> lo, hi |-> hi]

MergeOffsets == 0 .. MaxMergeOffset
Smt2Offsets ==
  {No} \cup {One(o) : o \in MergeOffsets}
       \cup {Two(lo, hi) : lo \in MergeOffsets, hi \in MergeOffsets}

\* A (One, One) branch that does not order the two offsets.
merge_ones_unordered(lft, rgt) == Two(lft, rgt)

\* `(& One(ref lft), & One(ref rgt)) => match lft.cmp(rgt) { .. }`.
merge_ones(lft, rgt) ==
  IF lft < rgt THEN Two(lft, rgt)
  ELSE IF lft = rgt THEN One(rgt)
  ELSE Two(rgt, lft)

\* A (Two, One) branch that never reports a conflict.
merge_two_one_always(self, rgt) == Some(self)

\* `(& Two(ref lft_lo, ref lft_hi), & One(ref rgt)) => ..`.
merge_two_one(self, rgt) ==
  IF rgt # self.lo /\ rgt # self.hi THEN None ELSE Some(self)

\* A (Two, Two) branch that keeps the left value.
merge_twos_left(self, other) == Some(self)

\* `(& Two(_, _), & Two(_, _)) => return None`.
merge_twos(self, other) == None

\* Smt2Offset::merge.
RECURSIVE merge(_, _)
merge(self, other) ==
  IF self = other THEN Some(other)
  ELSE IF self.tag = "No" THEN Some(other)
  ELSE IF other.tag = "No" THEN Some(self)
  ELSE IF self.tag = "One" /\ other.tag = "One"
       THEN Some(merge_ones(self.lo, other.lo))
  ELSE IF self.tag = "Two" /\ other.tag = "One"
       THEN merge_two_one(self, other.lo)
  ELSE IF self.tag = "Two" /\ other.tag = "Two"
       THEN merge_twos(self, other)
  ELSE merge(other, self)

\* The merges made on lhs, rhs and thd, by name.
MergeNames == {"ab", "ba", "bc", "ab_c", "a_bc"}
Computed(n) == n \in DOMAIN mres
Defined(n) == Computed(n) /\ mres[n] # None
Val(n) == CHOOSE x \in mres[n] : TRUE
Record(n, r) ==
  /\ ~Computed(n)
  /\ mres' = [m \in DOMAIN mres \cup {n} |-> IF m = n THEN r ELSE mres[m]]
  /\ UNCHANGED <<lhs, rhs, thd>>
  /\ UNCHANGED notMerge

\* lhs.merge(& rhs).
MergeAB == Record("ab", merge(lhs, rhs))
\* rhs.merge(& lhs).
MergeBA == Record("ba", merge(rhs, lhs))
\* rhs.merge(& thd).
MergeBC == Record("bc", merge(rhs, thd))
\* lhs.merge(& rhs), then the result merged with thd.
MergeAB_C == Defined("ab") /\ Record("ab_c", merge(Val("ab"), thd))
\* lhs merged with the result of rhs.merge(& thd).
MergeA_BC == Defined("bc") /\ Record("a_bc", merge(lhs, Val("bc")))

InitMerge ==
  /\ InitQuiet
  /\ off2 = Offset2_init
  /\ nxts = 0
  /\ offPc = "ok"
  /\ table = {}
  /\ handles = <<>>
  /\ mutex = {}
  /\ wk = <<>>
  /\ max_k = {}
  /\ cnt = 1
  /\ is_done = FALSE
  /\ work = 0
  /\ rounds = 0
  /\ dones = 0
  /\ dom = "Bool"
  /\ dlhs = "true"
  /\ drhs = "true"
  /\ dres = <<>>
  /\ cset = {}
  /\ chosen = <<>>
  /\ unroll_step = FALSE
  /\ base = Base_mk
  /\ step = to_step(unroll(Base_mk))
  /\ base_len = None
  /\ step_len = None
  /\ step_restarts = 0
  /\ lhs \in Smt2Offsets
  /\ rhs \in Smt2Offsets
  /\ thd \in Smt2Offsets
  /\ mres = <<>>

NextMerge ==
  \/ MergeAB
  \/ MergeBA
  \/ MergeBC
  \/ MergeAB_C
  \/ MergeA_BC

SpecMerge == InitMerge /\ [][NextMerge]_vars

\* C13: merge is commutative when defined: if lhs.merge(rhs) is defined,
\* rhs.merge(lhs) is defined and is the same value.
C13_MergeCommutative ==
  Defined("ab") /\ Computed("ba") => mres["ba"] = mres["ab"]

\* C13 witness: two different One merged both ways into a Two.
C13_Witness ==
  /\ Defined("ab")
  /\ Computed("ba")
  /\ lhs.tag = "One"
  /\ rhs.tag = "One"
  /\ lhs.lo > rhs.lo
  /\ Val("ab").tag = "Two"

\* C14: merge is associative when all submerges are defined.
C14_MergeAssociative ==
  Defined("ab") /\ Defined("ab_c") /\ Defined("bc") /\ Defined("a_bc")
    => mres["ab_c"] = mres["a_bc"]

\* C14 witness: three values, none of them No and not all equal, whose four
\* merges are defined.
C14_Witness ==
  /\ Defined("ab") /\ Defined("ab_c") /\ Defined("bc") /\ Defined("a_bc")
  /\ lhs.tag = "One"
  /\ rhs.tag = "One"
  /\ thd.tag = "Two"
  /\ lhs # rhs

\* The conflicts of the merge rule: a Two with a One that is neither of its
\* offsets, in either order, and a Two with a different Two.
Conflict(a, b) ==
  \/ a.tag = "Two" /\ b.tag = "One" /\ b.lo \notin {a.lo, a.hi}
  \/ a.tag = "One" /\ b.tag = "Two" /\ a.lo \notin {b.lo, b.hi}
  \/ a.tag = "Two" /\ b.tag = "Two" /\ a # b

\* The result of the merge rule when there is no conflict.
Rule(a, b) ==
  IF a.tag = "No" THEN b
  ELSE IF b.tag = "No" THEN a
  ELSE IF a.tag = "One" /\ b.tag = "One"
       THEN IF a.lo = b.lo THEN One(a.lo)
            ELSE IF a.lo < b.lo THEN Two(a.lo, b.lo) ELSE Two(b.lo, a.lo)
  ELSE IF a.tag = "Two" THEN a
  ELSE b

\* C15: merge reports a conflict exactly in the conflicts of the merge
\* rule, and returns the result of the rule in every other case.
C15_ConflictExactly ==
  /\ Computed("ab") =>
       mres["ab"] = IF Conflict(lhs, rhs) THEN None ELSE Some(Rule(lhs, rhs))
  /\ Computed("bc") =>
       mres["bc"] = IF Conflict(rhs, thd) THEN None ELSE Some(Rule(rhs, thd))

\* C15 witness: a conflict between a One and a Two, and a Two merged with
\* one of its offsets.
C15_Witness ==
  /\ Computed("ab")
  /\ Computed("bc")
  /\ lhs.tag = "One"
  /\ rhs.tag = "Two"
  /\ thd.tag = "One"
  /\ mres["ab"] = None
  /\ mres["bc"] = Some(rhs)

----------------------------------------------------------------------------
(* The term factory (term/src/factory.rs, term/src/term.rs).  The hash     *)
(* cons table is a set of entries [elm, key]; `elm` is the structure that  *)
(* was interned, whose sub-terms are the keys of interned terms.  A handle *)
(* is the key the factory returned together with the term that was asked   *)
(* for: the maker that was called and its arguments, sub-terms in full.    *)

\* Number of interning calls in one run.
MaxInterned == 3

TermSyms == {"x", "y"}
States == {"Curr", "Next"}
Csts == {[typ |-> "Bool", val |-> "true"], [typ |-> "Int", val |-> "0"]}
Operators == {"not"}

\* A structure of TerM, or a term asked for: tag, symbol, state, bound
\* symbols, sub-terms.
Struct(tag, sym, st, syms, args) ==
  [tag |-> tag, sym |-> sym, st |-> st, syms |-> syms, args |-> args]

\* The variants of TerM.
Var(id) == Struct("Var", id, "", <<>>, <<>>)
SVar(id, state) == Struct("SVar", id, state, <<>>, <<>>)
CstT(c) == Struct(c.typ, c.val, "", <<>>, <<>>)
Op(op, args) == Struct("Op", op, "", <<>>, args)
App(id, args) == Struct("App", id, "", <<>>, args)
Forall(bind, term) == Struct("Forall", "", "", bind, <<term>>)
Exists_as_forall(bind, term) == Struct("Forall", "", "", bind, <<term>>)
Exists(bind, term) == Struct("Exists", "", "", bind, <<term>>)
Let(bind, terms, term) == Struct("Let", "", "", bind, Append(terms, term))

\* HashConsign::mk: the entry of `elm` if the table has one, a new entry
\* with a fresh key otherwise.
hc_find(tbl, elm) == {e \in tbl : e.elm = elm}
hc_fresh(tbl) == Cardinality(tbl)
hc_mk(tbl, elm) ==
  IF hc_find(tbl, elm) # {}
  THEN [table |-> tbl, key |-> (CHOOSE e \in hc_find(tbl, elm) : TRUE).key]
  ELSE [table |-> tbl \cup {[elm |-> elm, key |-> hc_fresh(tbl)]},
        key |-> hc_fresh(tbl)]

Keys(hs) == [i \in DOMAIN hs |-> hs[i].key]
Asked(hs) == [i \in DOMAIN hs |-> hs[i].asked]

\* The handles interned so far, and the argument lists made of them.
Interned == {handles[i] : i \in DOMAIN handles}
ArgLists == {<<h>> : h \in Interned} \cup {<<g, h>> : g \in Interned, h \in Interned}

\* `self.lock().unwrap().mk( elm )`: one interning call, which returns the
\* handle of `elm`; `asked` is the term the caller asked for.
Intern(elm, asked) ==
  /\ Len(handles) < MaxInterned
  /\ table' = hc_mk(table, elm).table
  /\ handles' = Append(handles, [key |-> hc_mk(table, elm).key, asked |-> asked])
  /\ UNCHANGED <<mutex, wk>>
  /\ UNCHANGED notFact

FactoryVar ==
  \E id \in TermSyms : Intern(Var(id), Struct("var", id, "", <<>>, <<>>))
FactorySVar ==
  \E st \in States :
    Intern(SVar("x", st), Struct("svar", "x", st, <<>>, <<>>))
FactoryCst ==
  \E c \in Csts : Intern(CstT(c), Struct("cst", c.val, c.typ, <<>>, <<>>))
FactoryOp ==
  \E op \in Operators, args \in ArgLists :
    Intern(Op(op, Keys(args)), Struct("op", op, "", <<>>, Asked(args)))
FactoryApp ==
  \E h \in Interned :
    Intern(App("x", <<h.key>>), Struct("app", "x", "", <<>>, <<h.asked>>))
FactoryForall ==
  \E h \in Interned :
    Intern(Forall(<<"x">>, h.key), Struct("forall", "", "", <<"x">>, <<h.asked>>))
FactoryExists ==
  \E h \in Interned :
    Intern(Exists(<<"x">>, h.key), Struct("exists", "", "", <<"x">>, <<h.asked>>))
FactoryLetB ==
  \E g \in Interned, h \in Interned :
    Intern(Let(<<"x">>, <<g.key>>, h.key),
           Struct("let_b", "", "", <<"x">>, <<g.asked, h.asked>>))

InitIntern ==
  /\ InitQuiet
  /\ InitExt

NextIntern ==
  \/ FactoryVar
  \/ FactorySVar
  \/ FactoryCst
  \/ FactoryOp
  \/ FactoryApp
  \/ FactoryForall
  \/ FactoryExists
  \/ FactoryLetB

SpecIntern == InitIntern /\ [][NextIntern]_vars

\* C16: two handles returned by the factory have equal keys if and only if
\* the terms they were asked for are structurally equal.
C16_EqualKeysIffStructurallyEqual ==
  \A i \in DOMAIN handles : \A j \in DOMAIN handles :
    handles[i].key = handles[j].key <=> handles[i].asked = handles[j].asked

\* C16 witness: op called twice with equal arguments, and a third term.
C16_Witness ==
  \E i \in DOMAIN handles : \E j \in DOMAIN handles :
    /\ i < j
    /\ handles[i].asked.tag = "op"
    /\ handles[j].asked = handles[i].asked
    /\ handles[j].key = handles[i].key
    /\ Cardinality(table) >= 2

----------------------------------------------------------------------------
(* Two workers that hold clones of one Factory.  HConsign<T> is            *)
(* Arc<Mutex<HashConsign<T>>> and Factory derives Clone: the clones share  *)
(* the table and its mutex.  A maker is `self.lock().unwrap().mk( elm )`:  *)
(* take the mutex, look `elm` up, insert it if it is missing, release the  *)
(* mutex when the guard is dropped at the end of the statement.            *)

Workers == {1, 2}

\* What the workers intern: variables, and an operator over a term that was
\* interned before.
Jobs ==
  {[elm |-> Var(id), asked |-> Struct("var", id, "", <<>>, <<>>)] : id \in TermSyms}
  \cup {[elm |-> Op("not", <<h.key>>),
         asked |-> Struct("op", "not", "", <<>>, <<h.asked>>)] : h \in Interned}

\* A lock that is granted whether or not the mutex is held.
lock_granted_always(m, w) == TRUE

\* Mutex::lock is granted when no one holds the mutex.
lock_granted(m, w) == m = None

Idle == [pc |-> "idle", elm |-> Var("x"), asked |-> Var("x"), key |-> 0]

\* A worker calls a maker of its Factory.
WorkerCall(w) ==
  /\ wk[w].pc = "idle"
  /\ Len(handles) + Cardinality({v \in Workers : wk[v].pc # "idle"}) < MaxInterned
  /\ \E job \in Jobs :
       wk' = [wk EXCEPT ![w] = [pc |-> "call", elm |-> job.elm,
                                 asked |-> job.asked, key |-> 0]]
  /\ UNCHANGED <<table, handles, mutex>>
  /\ UNCHANGED notFact

\* `self.lock().unwrap()`.
Lock(w) ==
  /\ wk[w].pc = "call"
  /\ lock_granted(mutex, w)
  /\ mutex' = Some(w)
  /\ wk' = [wk EXCEPT ![w].pc = "locked"]
  /\ UNCHANGED <<table, handles>>
  /\ UNCHANGED notFact

\* HashConsign::mk, the look-up: the key of the entry when there is one.
MkLookup(w) ==
  /\ wk[w].pc = "locked"
  /\ IF hc_find(table, wk[w].elm) # {}
     THEN wk' = [wk EXCEPT ![w].pc = "made",
                           ![w].key = hc_mk(table, wk[w].elm).key]
     ELSE wk' = [wk EXCEPT ![w].pc = "missing"]
  /\ UNCHANGED <<table, handles, mutex>>
  /\ UNCHANGED notFact

\* HashConsign::mk, the insertion of a structure that was missing.
MkInsert(w) ==
  /\ wk[w].pc = "missing"
  /\ table' = table \cup {[elm |-> wk[w].elm, key |-> hc_fresh(table)]}
  /\ wk' = [wk EXCEPT ![w].pc = "made", ![w].key = hc_fresh(table)]
  /\ UNCHANGED <<handles, mutex>>
  /\ UNCHANGED notFact

\* The maker returns its handle; the guard is dropped.
Unlock(w) ==
  /\ wk[w].pc = "made"
  /\ mutex' = None
  /\ handles' =
       Append(handles,
              [key |-> wk[w].key, asked |-> wk[w].asked, by |-> w,
               waited |-> \E v \in Workers \ {w} :
                            wk[v].pc = "call" /\ wk[v].elm = wk[w].elm])
  /\ wk' = [wk EXCEPT ![w].pc = "idle"]
  /\ UNCHANGED table
  /\ UNCHANGED notFact

InitFactory ==
  /\ InitQuiet
  /\ off2 = Offset2_init
  /\ nxts = 0
  /\ offPc = "ok"
  /\ lhs = No
  /\ rhs = No
  /\ thd = No
  /\ mres = <<>>
  /\ table = {}
  /\ handles = <<>>
  /\ mutex = None
  /\ wk = [w \in Workers |-> Idle]
  /\ max_k = {}
  /\ cnt = 1
  /\ is_done = FALSE
  /\ work = 0
  /\ rounds = 0
  /\ dones = 0
  /\ dom = "Bool"
  /\ dlhs = "true"
  /\ drhs = "true"
  /\ dres = <<>>
  /\ cset = {}
  /\ chosen = <<>>
  /\ unroll_step = FALSE
  /\ base = Base_mk
  /\ step = to_step(unroll(Base_mk))
  /\ base_len = None
  /\ step_len = None
  /\ step_restarts = 0

NextFactory ==
  \/ \E w \in Workers : WorkerCall(w)
  \/ \E w \in Workers : Lock(w)
  \/ \E w \in Workers : MkLookup(w)
  \/ \E w \in Workers : MkInsert(w)
  \/ \E w \in Workers : Unlock(w)

SpecFactory == InitFactory /\ [][NextFactory]_vars

\* C17: in every interleaving of the two workers, handles asked for
\* structurally equal terms are the same representative, and the shared
\* table holds a single entry for each structure.
C17_OneRepresentative ==
  /\ \A i \in DOMAIN handles : \A j \in DOMAIN handles :
       handles[i].asked = handles[j].asked => handles[i].key = handles[j].key
  /\ \A e \in table : \A f \in table : e.elm = f.elm => e = f

\* C17 witness: the two workers obtained their handles for the same
\* structure, one of them having waited for the mutex while the other was
\* interning it.
C17_Witness ==
  \E i \in DOMAIN handles : \E j \in DOMAIN handles :
    /\ handles[i].by # handles[j].by
    /\ handles[i].waited
    /\ handles[i].asked = handles[j].asked
    /\ handles[i].asked.tag = "op"
    /\ handles[i].key = handles[j].key

----------------------------------------------------------------------------
(* Tig, the outer loop of invgen (tig/src/lib.rs).  The graph is seen      *)
(* through the number of refinements (splits of a class, resolutions of an *)
(* edge) it can still undergo: none when every class is a singleton with   *)
(* no edges.  The supervisor holds its receiver and takes each message     *)
(* before Tig sends the next one.  Errors of the solver are left out.      *)

\* Largest depth of a run without max_k, and largest small max_k.
MaxK == 2
\* Refinements the initial graph can undergo.
MaxWork == 2

\* A loop condition that leaves the last depth out.
loop_cond_strict(max, c) == \A m \in max : c < m

\* `max_k.map_or(true, |max| cnt <= max)`.
loop_cond(max, c) == \A m \in max : c <= m

\* `event.log(..)` before the loop: "running with {} candidate terms".
TigStart ==
  /\ pc = "tig"
  /\ up = <<>>
  /\ send(log("running"), "work")
  /\ UNCHANGED <<down, downAlive, upAlive, t, k_true, vec, recvRes, getRes>>
  /\ UNCHANGED <<histVars, restVars, offVars, mergeVars, factVars, tigVars, domVars, repVars, chkVars>>

\* The head of `'work`: one more stabilization, or out of the loop.
TigWork ==
  /\ pc = "work"
  /\ up = <<>>
  /\ max_k = None => cnt <= MaxK
  /\ IF loop_cond(max_k, cnt)
     THEN /\ is_done' = FALSE
          /\ rounds' = rounds + 1
          /\ send(log("stabilizing"), "stabilize")
     ELSE /\ pc' = "done_at"
          /\ UNCHANGED <<up, is_done, rounds>>
  /\ UNCHANGED <<down, downAlive, upAlive, t, k_true, vec, recvRes, getRes>>
  /\ UNCHANGED <<max_k, cnt, work, dones>>
  /\ UNCHANGED <<histVars, restVars, offVars, mergeVars, factVars, domVars, repVars, chkVars>>

\* One `graph.stabilize_next_class_and_edges`: it refines the graph and
\* returns false, or finds nothing unstable at this depth and returns true.
TigStabilize ==
  /\ pc = "stabilize"
  /\ ~is_done
  /\ \/ work > 0 /\ work' = work - 1 /\ is_done' = FALSE
     \/ is_done' = TRUE /\ work' = work
  /\ UNCHANGED <<max_k, cnt, rounds, dones>>
  /\ UNCHANGED <<busVars, histVars, restVars, offVars, mergeVars, factVars, domVars, repVars, chkVars>>

\* The end of `'stabilize`: `event.log(..)`, "graph stablized at {}".
TigStabilized ==
  /\ pc = "stabilize"
  /\ is_done
  /\ up = <<>>
  /\ send(log("stabilized"), "split")
  /\ UNCHANGED <<down, downAlive, upAlive, t, k_true, vec, recvRes, getRes>>
  /\ UNCHANGED <<histVars, restVars, offVars, mergeVars, factVars, tigVars, domVars, repVars, chkVars>>

\* graph.clear(), k_split_all, then `base.restart()`, `base.unroll()` and
\* its debug_assert, `cnt += 1`, `step.restart()` and, under unroll_step,
\* `step.unroll()` and its debug_assert.  A debug_assert that fails panics
\* in a build with debug assertions and is compiled out of the other builds.
TigSplit ==
  /\ pc = "split"
  /\ work' \in 0 .. work
  /\ base' = unroll(restart(base))
  /\ base_len' = Some(base'.len)
  /\ \/ /\ base'.len # cnt
        /\ pc' = "assert_failed"
        /\ UNCHANGED <<cnt, step, step_len, step_restarts>>
     \/ /\ cnt' = cnt + 1
        /\ step_restarts' = step_restarts + 1
        /\ IF unroll_step
           THEN /\ step' = unroll(restart(step))
                /\ step_len' = Some(step'.len)
                /\ \/ step'.len # cnt' /\ pc' = "assert_failed"
                   \/ pc' = "work"
           ELSE /\ step' = restart(step)
                /\ pc' = "work"
                /\ UNCHANGED step_len
  /\ UNCHANGED unroll_step
  /\ UNCHANGED <<down, downAlive, up, upAlive, t, k_true, vec, recvRes, getRes>>
  /\ UNCHANGED <<max_k, is_done, rounds, dones>>
  /\ UNCHANGED <<histVars, restVars, offVars, mergeVars, factVars, domVars, repVars>>

\* `event.done_at( & Offset::of_int(cnt) )`.
TigDoneAt ==
  /\ pc = "done_at"
  /\ up = <<>>
  /\ IF of_int(cnt).out = "ok"
     THEN /\ send(done(At(of_int(cnt).offset)), "exited")
          /\ dones' = dones + 1
     ELSE /\ pc' = "panicked"
          /\ UNCHANGED <<up, dones>>
  /\ UNCHANGED <<down, downAlive, upAlive, t, k_true, vec, recvRes, getRes>>
  /\ UNCHANGED <<max_k, cnt, is_done, work, rounds>>
  /\ UNCHANGED <<histVars, restVars, offVars, mergeVars, factVars, domVars, repVars, chkVars>>

\* The supervisor takes the message Tig sent.
SupTake ==
  /\ upAlive
  /\ up # <<>>
  /\ up' = Tail(up)
  /\ UNCHANGED <<down, downAlive, upAlive, t, k_true, vec, pc, recvRes, getRes>>
  /\ UNCHANGED <<histVars, restVars, extVars>>

\* The values of conf.max(): none, small ones, the largest u16.
MaxKs == {None} \cup {Some(m) : m \in 0 .. MaxK} \cup {Some(U16 - 1)}
\* The configurations (conf.max(), conf.step_roll()): the largest u16 is
\* run without step unrolling only.
Confs == {c \in MaxKs \X BOOLEAN : c[1] = Some(U16 - 1) => ~c[2]}

InitTig ==
  /\ InitBus
  /\ InitRest
  /\ t = "Tig"
  /\ pc = "tig"
  /\ off2 = Offset2_init
  /\ nxts = 0
  /\ offPc = "ok"
  /\ lhs = No
  /\ rhs = No
  /\ thd = No
  /\ mres = <<>>
  /\ table = {}
  /\ handles = <<>>
  /\ mutex = None
  /\ wk = <<>>
  /\ \E c \in Confs : max_k = c[1] /\ unroll_step = c[2]
  /\ cnt = 1
  /\ is_done = FALSE
  /\ work \in 0 .. MaxWork
  /\ rounds = 0
  /\ dones = 0
  /\ dom = "Bool"
  /\ dlhs = "true"
  /\ drhs = "true"
  /\ dres = <<>>
  /\ cset = {}
  /\ chosen = <<>>
  /\ base = Base_mk
  /\ step = to_step(unroll(Base_mk))
  /\ base_len = None
  /\ step_len = None
  /\ step_restarts = 0

NextTig ==
  \/ TigStart
  \/ TigWork
  \/ TigStabilize
  \/ TigStabilized
  \/ TigSplit
  \/ TigDoneAt
  \/ SupTake

SpecTig == InitTig /\ [][NextTig]_vars

\* C18: with max = Some(m) the stabilizations run for k = 1, 2, .., m in
\* this order and for no k greater than m; no Done is sent before k exceeds
\* m, and then exactly one Done is sent and Tig exits.
C18_RunsToMaxThenDone ==
  \A m \in max_k :
    /\ pc \in {"stabilize", "split"} => cnt = rounds /\ cnt <= m
    /\ pc \in {"work", "done_at"} => cnt = rounds + 1
    /\ dones <= 1
    /\ dones = 1 <=> pc = "exited"
    /\ pc = "done_at" => cnt = m + 1
    /\ pc = "exited" => rounds = m
    /\ pc # "panicked"

\* C19: Tig stops when every remaining class is a singleton with no edges,
\* or when k reached max_k: from the head of the outer loop no further
\* stabilization starts, with or without max_k.
C19_StopsWhenStableOrMax ==
  [][pc = "work" /\ (work = 0 \/ ~loop_cond(max_k, cnt))
       => pc' # "stabilize"]_vars

\* C23: between two values of k the step checker is restarted only when
\* step_roll is true: without step_roll it is never restarted.
C23_StepRestartOnlyWhenRolling ==
  ~unroll_step => step_restarts = 0

\* C25: the depth assertions of the outer loop hold on every iteration:
\* at the end of iteration k base.unroll() returns k and, when step_roll is
\* true, step.unroll() returns k + 1.
C25_DepthAssertionsHold ==
  [][pc = "split"
       => /\ base_len' = Some(cnt)
          /\ unroll_step /\ cnt' = cnt + 1 => step_len' = Some(cnt + 1)]_vars

----------------------------------------------------------------------------
(* A checker session on its own: unroll() and restart() in any order, on   *)
(* the base session and on the step session Tig creates.                   *)

\* Deepest unrolling of a session.
MaxDepth == 5

BaseUnroll ==
  /\ base.len < MaxDepth
  /\ base' = unroll(base)
  /\ base_len' = Some(base'.len)
  /\ UNCHANGED <<unroll_step, step, step_len, step_restarts>>
  /\ UNCHANGED notChk

BaseRestart ==
  /\ base' = restart(base)
  /\ UNCHANGED <<unroll_step, step, base_len, step_len, step_restarts>>
  /\ UNCHANGED notChk

StepUnroll ==
  /\ step.len < MaxDepth
  /\ step' = unroll(step)
  /\ step_len' = Some(step'.len)
  /\ UNCHANGED <<unroll_step, base, base_len, step_restarts>>
  /\ UNCHANGED notChk

StepRestart ==
  /\ step' = restart(step)
  /\ UNCHANGED <<unroll_step, base, base_len, step_len, step_restarts>>
  /\ UNCHANGED notChk

InitSession ==
  /\ InitQuiet
  /\ InitExt

NextSession ==
  \/ BaseUnroll
  \/ BaseRestart
  \/ StepUnroll
  \/ StepRestart

SpecSession == InitSession /\ [][NextSession]_vars

----------------------------------------------------------------------------
(* Domain (tig/src/lib.rs): mk_cmp and mk_eq of Bool, Int and Rat.  A term *)
(* is its text; a TmpTerm is the operator with its two arguments.          *)

Domains == {"Bool", "Int", "Rat"}
DomTerms == {"true", "false", "x", "y"}

is_true(term) == term = "true"
is_false(term) == term = "false"

mk_term_impl(l, r) == [op |-> "=>", lhs |-> l, rhs |-> r]
mk_term_le(l, r) == [op |-> "<=", lhs |-> l, rhs |-> r]
mk_term_eq(l, r) == [op |-> "=", lhs |-> l, rhs |-> r]

\* A Bool mk_cmp that suppresses only when both literals are there.
Bool_mk_cmp_either(l, r) ==
  IF ~is_false(l) \/ ~is_true(r) THEN Some(mk_term_impl(l, r)) ELSE None

\* mk_cmp of `impl Domain for Bool`.
Bool_mk_cmp(l, r) ==
  IF ~is_false(l) /\ ~is_true(r) THEN Some(mk_term_impl(l, r)) ELSE None

\* mk_cmp of `impl Domain for Int` and of `impl Domain for Rat`.
Int_mk_cmp(l, r) == Some(mk_term_le(l, r))
Rat_mk_cmp(l, r) == Some(mk_term_le(l, r))

\* mk_eq of the three implementations.
Bool_mk_eq(l, r) == Some(mk_term_eq(l, r))
Int_mk_eq(l, r) == Some(mk_term_eq(l, r))
Rat_mk_eq(l, r) == Some(mk_term_eq(l, r))

\* `D::mk_cmp` and `D::mk_eq`, by domain.
mk_cmp(d, l, r) ==
  IF d = "Bool" THEN Bool_mk_cmp(l, r)
  ELSE IF d = "Int" THEN Int_mk_cmp(l, r)
  ELSE Rat_mk_cmp(l, r)
mk_eq(d, l, r) ==
  IF d = "Bool" THEN Bool_mk_eq(l, r)
  ELSE IF d = "Int" THEN Int_mk_eq(l, r)
  ELSE Rat_mk_eq(l, r)

DomRecord(n, r) ==
  /\ n \notin DOMAIN dres
  /\ dres' = [m \in DOMAIN dres \cup {n} |-> IF m = n THEN r ELSE dres[m]]
  /\ UNCHANGED <<dom, dlhs, drhs>>
  /\ UNCHANGED notDom

\* A call of D::mk_cmp(lhs, rhs).
DomainMkCmp == DomRecord("mk_cmp", mk_cmp(dom, dlhs, drhs))
\* A call of D::mk_eq(lhs, rhs).
DomainMkEq == DomRecord("mk_eq", mk_eq(dom, dlhs, drhs))

InitDomain ==
  /\ InitQuiet
  /\ off2 = Offset2_init
  /\ nxts = 0
  /\ offPc = "ok"
  /\ lhs = No
  /\ rhs = No
  /\ thd = No
  /\ mres = <<>>
  /\ table = {}
  /\ handles = <<>>
  /\ mutex = None
  /\ wk = <<>>
  /\ max_k = None
  /\ cnt = 1
  /\ is_done = FALSE
  /\ work = 0
  /\ rounds = 0
  /\ dones = 0
  /\ dom \in Domains
  /\ dlhs \in DomTerms
  /\ drhs \in DomTerms
  /\ dres = <<>>
  /\ cset = {}
  /\ chosen = <<>>
  /\ unroll_step = FALSE
  /\ base = Base_mk
  /\ step = to_step(unroll(Base_mk))
  /\ base_len = None
  /\ step_len = None
  /\ step_restarts = 0

NextDomain ==
  \/ DomainMkCmp
  \/ DomainMkEq

SpecDomain == InitDomain /\ [][NextDomain]_vars

\* C20: Bool's mk_cmp returns the implication exactly when lhs is not the
\* literal false and rhs is not the literal true, and nothing otherwise;
\* Int's and Rat's mk_cmp always return lhs <= rhs; mk_eq always returns
\* the equality.
C20_MkCmpMkEq ==
  /\ "mk_cmp" \in DOMAIN dres =>
       dres["mk_cmp"] =
         IF dom = "Bool"
         THEN IF dlhs # "false" /\ drhs # "true"
              THEN Some([op |-> "=>", lhs |-> dlhs, rhs |-> drhs])
              ELSE None
         ELSE Some([op |-> "<=", lhs |-> dlhs, rhs |-> drhs])
  /\ "mk_eq" \in DOMAIN dres =>
       dres["mk_eq"] = Some([op |-> "=", lhs |-> dlhs, rhs |-> drhs])

\* C20 witness: Bool's mk_cmp suppressed the implication of a term by the
\* literal true, and mk_eq returned the equality.
C20_Witness ==
  /\ dom = "Bool"
  /\ dlhs = "x"
  /\ drhs = "true"
  /\ DOMAIN dres = {"mk_cmp", "mk_eq"}
  /\ dres["mk_cmp"] = None
  /\ dres["mk_eq"] # None

----------------------------------------------------------------------------
(* Domain::choose_rep (tig/src/lib.rs).  A TermSet is a hash set: the      *)
(* element `set.iter().next()` yields is the first one of its iteration    *)
(* order, which depends on the hashes and on the history of the set, not   *)
(* on its elements alone.                                                  *)

RepTerms == {"true", "x", "y"}
Execs == {1, 2}

\* `set.iter().next()`: the elements an iteration order can yield first.
iter_next(set) == set

RepOk(rep, set) == [out |-> "ok", rep |-> rep, others |-> set \ {rep}]
RepErr == [out |-> "err", rep |-> "", others |-> {}]

\* choose_rep of Int and of Rat: `set.iter().next()`, bail on None, then
\* `set.remove(& rep)`.
Int_choose_rep(set) ==
  IF iter_next(set) = {} THEN {RepErr}
  ELSE {RepOk(rep, set) : rep \in iter_next(set)}
Rat_choose_rep(set) ==
  IF iter_next(set) = {} THEN {RepErr}
  ELSE {RepOk(rep, set) : rep \in iter_next(set)}

\* A Bool choose_rep that does not look for the literal true.
Bool_choose_rep_any(set) ==
  IF iter_next(set) = {} THEN {RepErr}
  ELSE {RepOk(rep, set) : rep \in iter_next(set)}

\* choose_rep of Bool: `set.remove(& tru)`, and the first element when
\* true was not there.
Bool_choose_rep(set) ==
  IF "true" \in set THEN {RepOk("true", set)}
  ELSE IF iter_next(set) = {} THEN {RepErr}
  ELSE {RepOk(rep, set) : rep \in iter_next(set)}

\* `D::choose_rep`: the results it can return.
choose_rep(d, set) ==
  IF d = "Bool" THEN Bool_choose_rep(set)
  ELSE IF d = "Int" THEN Int_choose_rep(set)
  ELSE Rat_choose_rep(set)

\* One execution of D::choose_rep on the set.
ChooseRep(x) ==
  /\ x \notin DOMAIN chosen
  /\ \E res \in choose_rep(dom, cset) :
       chosen' = [y \in DOMAIN chosen \cup {x} |->
                    IF y = x THEN res ELSE chosen[y]]
  /\ UNCHANGED cset
  /\ UNCHANGED <<domVars, notRep>>

InitRep ==
  /\ InitQuiet
  /\ off2 = Offset2_init
  /\ nxts = 0
  /\ offPc = "ok"
  /\ lhs = No
  /\ rhs = No
  /\ thd = No
  /\ mres = <<>>
  /\ table = {}
  /\ handles = <<>>
  /\ mutex = None
  /\ wk = <<>>
  /\ max_k = None
  /\ cnt = 1
  /\ is_done = FALSE
  /\ work = 0
  /\ rounds = 0
  /\ dones = 0
  /\ dom \in Domains
  /\ dlhs = "true"
  /\ drhs = "true"
  /\ dres = <<>>
  /\ cset \in SUBSET RepTerms
  /\ chosen = <<>>
  /\ unroll_step = FALSE
  /\ base = Base_mk
  /\ step = to_step(unroll(Base_mk))
  /\ base_len = None
  /\ step_len = None
  /\ step_restarts = 0

NextRep ==
  \/ \E x \in Execs : ChooseRep(x)

SpecRep == InitRep /\ [][NextRep]_vars

\* C21: on a non-empty set choose_rep returns (rep, others) with rep in the
\* set and others the set minus rep, and for Bool rep is the literal true
\* whenever true is in the set; on the empty set it returns an error.
C21_RepAndOthers ==
  \A x \in DOMAIN chosen :
    IF cset = {}
    THEN chosen[x].out = "err"
    ELSE /\ chosen[x].out = "ok"
         /\ chosen[x].rep \in cset
         /\ chosen[x].rep \notin chosen[x].others
         /\ chosen[x].others \cup {chosen[x].rep} = cset
         /\ dom = "Bool" /\ "true" \in cset => chosen[x].rep = "true"

\* C21 witness: Bool's choose_rep took the literal true out of a set of
\* three terms.
C21_Witness ==
  /\ dom = "Bool"
  /\ cset = RepTerms
  /\ 1 \in DOMAIN chosen
  /\ chosen[1].rep = "true"
  /\ chosen[1].others = {"x", "y"}

\* C22: two executions of choose_rep on the same term set choose the same
\* representative.
C22_SameRepAcrossRuns ==
  DOMAIN chosen = Execs => chosen[1].rep = chosen[2].rep

====
